---------------------------- MODULE Spec2Model ----------------------------
(***************************************************************************)
(* State-machine model of the docspace front-end page controllers.         *)
(*                                                                         *)
(*   landing.js  - the upload page: pending file queue, submit and clear   *)
(*                 controls, status box, POST /api/ingest                  *)
(*   chat.js     - the chat page: transcript, composer, status indicator,  *)
(*                 POST /api/chat                                          *)
(*   documentView.js, documentIdea.js - the document page: pin button and  *)
(*                 comment list (the two scripts hold the same handlers)   *)
(*   login-signup.js - the login/signup page: both submit listeners of     *)
(*                 each form, POST /auth/login and /auth/signup            *)
(*                                                                         *)
(* Every page is a script of its own, so every page has its own            *)
(* specification: Spec (upload page), QueueSpec (the upload page's file    *)
(* selection alone, over a wider set of file names), ChatSpec, DocSpec    *)
(* and AuthSpec.                                                           *)
(*                                                                         *)
(* A handler that awaits a fetch is split at the await: the part before it *)
(* is one action, and the continuation that runs once the response (and    *)
(* its body) has arrived is another.  A request is "pending" from the      *)
(* first to the second.  Text is a sequence of one-character strings       *)
(* wherever the code looks inside it (file names, the composer input).    *)
(***************************************************************************)
EXTENDS Naturals, Sequences, FiniteSets, Bags, TLC

VARIABLES
    files,              \* landing.js: let files = [] (the pending file queue)
    fileList,           \* landing.js: the rows rendered into #file-list
    ingestBtnDisabled,  \* landing.js: ingestBtn.disabled
    clearBtnDisabled,   \* landing.js: clearBtn.disabled
    statusBox,          \* landing.js: statusBox.innerHTML as [title, message]
    dragover,           \* landing.js: dropzone has the class "dragover"
    incoming,           \* landing.js: the FileList of the last change/drop event
    ingestPending,      \* bag of multipart bodies of the /api/ingest requests awaited
    messages,           \* chat.js: the transcript, rows of #messages
    promptInput,        \* chat.js: promptInput.value
    status,             \* chat.js: #status as [text, ok]
    chatPending,        \* bag of message texts of the /api/chat requests awaited
    pinned,             \* documentView.js: let pinned = false
    pinLabel,           \* documentView.js: pinBtn.textContent
    alertText,          \* documentView.js: the text of the last alert()
    commentInput,       \* documentView.js: commentInput.value
    commentsList,       \* documentView.js: the rows of #commentsList
    docTitle,           \* documentView.js: #docTitle.textContent
    loginHidden,        \* login-signup.js: #loginForm has the class "hidden"
    signupHidden,       \* login-signup.js: #signupForm has the class "hidden"
    loginMessage,       \* login-signup.js: the .api-message of the login form
    signupMessage,      \* login-signup.js: the .api-message of the signup form
    localStorage,       \* login-signup.js: localStorage, keys access_token, token_type
    authPending,        \* bag of the /auth/login and /auth/signup requests awaited
    timers,             \* bag of the setTimeout callbacks not yet run
    location,           \* login-signup.js: window.location ("auth", "navigating", "dashboard")
    lastEvent           \* the handler (or continuation) that ran last

vars == <<files, fileList, ingestBtnDisabled, clearBtnDisabled, statusBox,
          dragover, incoming, ingestPending, messages, promptInput, status,
          chatPending, pinned, pinLabel, alertText, commentInput,
          commentsList, docTitle, loginHidden, signupHidden, loginMessage,
          signupMessage, localStorage, authPending, timers, location,
          lastEvent>>

uploadVars == <<files, fileList, ingestBtnDisabled, clearBtnDisabled,
                statusBox, dragover, incoming, ingestPending>>

chatVars == <<messages, promptInput, status, chatPending>>

docVars == <<pinned, pinLabel, alertText, commentInput, commentsList, docTitle>>

authVars == <<loginHidden, signupHidden, loginMessage, signupMessage,
              localStorage, authPending, timers, location>>

----------------------------------------------------------------------------
(* Bounds of the model.                                                    *)

\* longest pending file queue
MaxQueue == 2
\* most /api/ingest requests awaited at once
MaxIngestPending == 2
\* longest chat transcript
MaxMessages == 5
\* most /api/chat requests awaited at once
MaxChatPending == 2
\* longest comment list
MaxComments == 3
\* most /auth requests awaited plus timers not yet run
MaxAuthPending == 2

----------------------------------------------------------------------------
(* Strings the code looks inside: sequences of one-character strings.      *)

UpperCase == <<"A","B","C","D","E","F","G","H","I","J","K","L","M",
               "N","O","P","Q","R","S","T","U","V","W","X","Y","Z">>
LowerCase == <<"a","b","c","d","e","f","g","h","i","j","k","l","m",
               "n","o","p","q","r","s","t","u","v","w","x","y","z">>

\* the lower-case letter of every upper-case letter
LowerOf == [c \in {UpperCase[i] : i \in 1..26} |->
              LowerCase[CHOOSE i \in 1..26 : UpperCase[i] = c]]

\* String.prototype.toLowerCase, one character
toLowerChar(c) == IF c \in DOMAIN LowerOf THEN LowerOf[c] ELSE c

\* String.prototype.toLowerCase
toLowerCase(s) == [i \in 1..Len(s) |-> toLowerChar(s[i])]

\* String.prototype.endsWith
endsWith(s, suffix) ==
    /\ Len(suffix) <= Len(s)
    /\ SubSeq(s, Len(s) - Len(suffix) + 1, Len(s)) = suffix

----------------------------------------------------------------------------
(* landing.js: the upload page                                             *)

\* const allowed = [".md", ".markdown", ".txt", ".rst"]
allowed == << <<".","m","d">>,
              <<".","m","a","r","k","d","o","w","n">>,
              <<".","t","x","t">>,
              <<".","r","s","t">> >>

\* allowed.some((ext) => file.name.toLowerCase().endsWith(ext))
SomeExtNoLowerCase(file) ==
    \E i \in 1..Len(allowed) : endsWith(file.name, allowed[i])

SomeExt(file) ==
    \E i \in 1..Len(allowed) : endsWith(toLowerCase(file.name), allowed[i])

\* Array.from(incoming).filter(...)
Added(candidates) == SelectSeq(candidates, SomeExt)

\* setStatus(title, message): statusBox.innerHTML = <strong>title</strong>message
setStatus(title, message) == statusBox' = [title |-> title, message |-> message]

\* (file.size / 1024).toFixed(1), in tenths of a KB
KbTenths(size) == (size * 10 + 512) \div 1024

\* the rows refreshList renders for a queue
Rows(queue) ==
    IF queue = <<>>
    THEN << [em |-> "No files selected yet."] >>
    ELSE [i \in 1..Len(queue) |->
            [span |-> queue[i].name, small |-> KbTenths(queue[i].size)]]

\* refreshList(), run on the queue as just assigned
refreshList(queue) ==
    /\ fileList' = Rows(queue)
    /\ ingestBtnDisabled' = (queue = <<>>)
    /\ clearBtnDisabled' = (queue = <<>>)

\* addFiles(incoming)
addFilesRefreshAlways(candidates) ==
    LET added == Added(candidates) IN
    IF added = <<>>
    THEN /\ setStatus("No supported files",
                      "Please upload .md, .markdown, .txt, or .rst files.")
         /\ refreshList(files)
         /\ UNCHANGED files
    ELSE /\ files' = files \o added
         /\ refreshList(files \o added)
         /\ setStatus("Ready", ToString(Len(files \o added))
                               \o " file(s) queued for ingestion.")

addFilesPrepend(candidates) ==
    LET added == Added(candidates) IN
    IF added = <<>>
    THEN /\ setStatus("No supported files",
                      "Please upload .md, .markdown, .txt, or .rst files.")
         /\ UNCHANGED <<files, fileList, ingestBtnDisabled, clearBtnDisabled>>
    ELSE /\ files' = added \o files
         /\ refreshList(added \o files)
         /\ setStatus("Ready", ToString(Len(added \o files))
                               \o " file(s) queued for ingestion.")

addFiles(candidates) ==
    LET added == Added(candidates) IN
    IF added = <<>>
    THEN /\ setStatus("No supported files",
                      "Please upload .md, .markdown, .txt, or .rst files.")
         /\ UNCHANGED <<files, fileList, ingestBtnDisabled, clearBtnDisabled>>
    ELSE /\ files' = files \o added
         /\ refreshList(files \o added)
         /\ setStatus("Ready", ToString(Len(files \o added))
                               \o " file(s) queued for ingestion.")

\* Files a user may select or drop (name, byte size)
NotesMd       == [name |-> <<"a",".","m","d">>, size |-> 512]
GuideMarkdown == [name |-> <<"G",".","M","a","r","k","D","o","w","n">>, size |-> 2048]
LogTxt        == [name |-> <<"l",".","t","x","t">>, size |-> 100]
ApiRst        == [name |-> <<"d",".","R","S","T">>, size |-> 1536]
PaperPdf      == [name |-> <<"e",".","p","d","f">>, size |-> 4096]
BackupBak     == [name |-> <<"a",".","m","d",".","b","a","k">>, size |-> 512]
NoDotMd       == [name |-> <<"m","d">>, size |-> 10]

AllFiles == {NotesMd, GuideMarkdown, LogTxt, ApiRst, PaperPdf, BackupBak, NoDotMd}

\* the FileLists selected or dropped in the upload page's runs (Spec)
PageLists == {<<>>, <<NotesMd>>, <<PaperPdf>>, <<PaperPdf, ApiRst>>}

\* the FileLists of QueueSpec: none, one or two of AllFiles, in either order
FileLists ==
    {<<>>} \cup {<<f>> : f \in AllFiles} \cup {<<f, g>> : f \in AllFiles, g \in AllFiles}

\* the queue stays within the model's bound
FitsQueue(candidates) == Len(files) + Len(Added(candidates)) <= MaxQueue

\* fileInput "change": addFiles(event.target.files); fileInput.value = ""
FileInputChange(candidates) ==
    /\ candidates # <<>>
    /\ FitsQueue(candidates)
    /\ incoming' = candidates
    /\ addFiles(candidates)
    /\ lastEvent' = [type |-> "change", response |-> "none"]
    /\ UNCHANGED <<dragover, ingestPending>>
    /\ UNCHANGED <<chatVars, docVars, authVars>>

\* dropzone "dragover"
DragOver ==
    /\ dragover' = TRUE
    /\ lastEvent' = [type |-> "dragover", response |-> "none"]
    /\ UNCHANGED <<files, fileList, ingestBtnDisabled, clearBtnDisabled,
                   statusBox, incoming, ingestPending>>
    /\ UNCHANGED <<chatVars, docVars, authVars>>

\* dropzone "dragleave"
DragLeave ==
    /\ dragover' = FALSE
    /\ lastEvent' = [type |-> "dragleave", response |-> "none"]
    /\ UNCHANGED <<files, fileList, ingestBtnDisabled, clearBtnDisabled,
                   statusBox, incoming, ingestPending>>
    /\ UNCHANGED <<chatVars, docVars, authVars>>

\* dropzone "drop": addFiles(event.dataTransfer.files)
Drop(candidates) ==
    /\ FitsQueue(candidates)
    /\ dragover' = FALSE
    /\ incoming' = candidates
    /\ addFiles(candidates)
    /\ lastEvent' = [type |-> "drop", response |-> "none"]
    /\ UNCHANGED ingestPending
    /\ UNCHANGED <<chatVars, docVars, authVars>>

\* clearBtn "click" (a disabled button dispatches no click)
ClearClick ==
    /\ ~clearBtnDisabled
    /\ files' = <<>>
    /\ refreshList(<<>>)
    /\ setStatus("Cleared",
         "Waiting for files. Files will be uploaded to <code>/api/ingest</code>.")
    /\ lastEvent' = [type |-> "clear", response |-> "none"]
    /\ UNCHANGED <<dragover, incoming, ingestPending>>
    /\ UNCHANGED <<chatVars, docVars, authVars>>

\* ingestBtn "click", up to the await of fetch("/api/ingest")
ingestClickNoEmptyCheck ==
    /\ ingestBtnDisabled' = TRUE
    /\ setStatus("Uploading", "Sending files to the ingestion pipeline...")
    /\ ingestPending' = ingestPending (+) SetToBag({files})
    /\ UNCHANGED <<files, fileList, clearBtnDisabled>>

ingestClick ==
    IF files = <<>>
    THEN UNCHANGED <<files, fileList, ingestBtnDisabled, clearBtnDisabled,
                     statusBox, ingestPending>>
    ELSE /\ ingestBtnDisabled' = TRUE
         /\ setStatus("Uploading", "Sending files to the ingestion pipeline...")
         /\ ingestPending' = ingestPending (+) SetToBag({files})
         /\ UNCHANGED <<files, fileList, clearBtnDisabled>>

IngestClick ==
    /\ ~ingestBtnDisabled
    /\ files # <<>> => BagCardinality(ingestPending) < MaxIngestPending
    /\ ingestClick
    /\ lastEvent' = [type |-> "ingestClick", response |-> "none"]
    /\ UNCHANGED <<dragover, incoming>>
    /\ UNCHANGED <<chatVars, docVars, authVars>>

\* What the server (or the network) answers to POST /api/ingest:
\*   ok + message   2xx, JSON object with a non-empty message
\*   ok + object    2xx, JSON without a usable message, or no JSON at all
\*                  (response.json().catch(() => ({})))
\*   ok + null      2xx, the JSON value null
\*   http           non-2xx, with or without body text
\*   reject         fetch rejects
IngestOkPayloads == {"message", "object", "null"}
IngestErrors == {"http text", "http empty", "reject"}

\* error.message in the catch block
ingestErrorMessage(err) ==
    CASE err = "http text"  -> "index unavailable"
      [] err = "http empty" -> "Ingestion failed"
      [] err = "reject"     -> "Failed to fetch"
      [] err = "null"       -> "Cannot read properties of null (reading 'message')"

\* catch (error) { setStatus("Upload failed", ...); ingestBtn.disabled = false; }
catchBlock(err) ==
    /\ setStatus("Upload failed", "Error: " \o ingestErrorMessage(err)
                   \o ". Verify the ingestion endpoint is running.")
    /\ ingestBtnDisabled' = FALSE

\* the continuation after a non-2xx response or a rejected fetch:
\* lines 88-91 throw, the catch block runs
ingestFailedClearsQueue(err) ==
    /\ catchBlock(err)
    /\ files' = <<>>
    /\ fileList' = Rows(<<>>)
    /\ UNCHANGED clearBtnDisabled

ingestFailed(err) ==
    /\ catchBlock(err)
    /\ UNCHANGED <<files, fileList, clearBtnDisabled>>

\* the continuation after a 2xx response: lines 93-99, and the catch block
\* when payload.message throws on a null payload
ingestOk(payload) ==
    IF payload = "null"
    THEN /\ files' = <<>>
         /\ fileList' = Rows(<<>>)
         /\ clearBtnDisabled' = TRUE
         /\ catchBlock("null")
    ELSE /\ files' = <<>>
         /\ refreshList(<<>>)
         /\ setStatus("Ingestion started",
              IF payload = "message"
              THEN "Pipeline response: " \o "queued for indexing"
              ELSE "Files accepted. Check pipeline logs for progress.")

\* a 2xx response to one pending request arrives
IngestResponseOk(body, payload) ==
    /\ BagIn(body, ingestPending)
    /\ ingestPending' = ingestPending (-) SetToBag({body})
    /\ ingestOk(payload)
    /\ lastEvent' = [type |-> "ingestOk", response |-> payload]
    /\ UNCHANGED <<dragover, incoming>>
    /\ UNCHANGED <<chatVars, docVars, authVars>>

\* a non-2xx response arrives, or the fetch rejects
IngestResponseFailed(body, err) ==
    /\ BagIn(body, ingestPending)
    /\ ingestPending' = ingestPending (-) SetToBag({body})
    /\ ingestFailed(err)
    /\ lastEvent' = [type |-> "ingestFailed", response |-> err]
    /\ UNCHANGED <<dragover, incoming>>
    /\ UNCHANGED <<chatVars, docVars, authVars>>


----------------------------------------------------------------------------
(* chat.js: the chat page                                                  *)

\* the characters String.prototype.trim strips (those the runs type)
WhiteSpace == {" ", "\t", "\n"}

\* String.prototype.trim
RECURSIVE trimStart(_)
trimStart(s) ==
    IF s # <<>> /\ Head(s) \in WhiteSpace THEN trimStart(Tail(s)) ELSE s

RECURSIVE trimEnd(_)
trimEnd(s) ==
    IF s # <<>> /\ s[Len(s)] \in WhiteSpace
    THEN trimEnd(SubSeq(s, 1, Len(s) - 1))
    ELSE s

trim(s) == trimEnd(trimStart(s))

\* what the user may have typed into #prompt
Prompts == { <<>>,
             <<" ">>,
             <<"\t", " ", "\n">>,
             <<"h","i">>,
             <<" ","h","i","\n">>,
             <<"a"," ","b">> }

\* the entry the clear handler writes, and the fixed texts of the handler
Welcome ==
    [text |-> <<"Upload docs, then ask anything. I will respond based on your indexed knowledge.">>,
     role |-> "system"]
OfflineText == <<"Unable to reach the chat service. Check that the backend is running.">>
NoReplyText == <<"No response received.">>

\* addMessage(text, role): one more row at the end of #messages
addMessage(text, role) ==
    messages' = Append(messages, [text |-> text, role |-> role])

\* chat.js setStatus(text, ok = true): ok picks the background colour
\* ("Thinking..." stands for the code's "Thinking" followed by U+2026)
chatSetStatus(text, ok) == status' = [text |-> text, ok |-> ok]

\* the user edits #prompt
TypePrompt(value) ==
    /\ promptInput' = value
    /\ lastEvent' = [type |-> "type", response |-> "none"]
    /\ UNCHANGED <<messages, status, chatPending>>
    /\ UNCHANGED <<uploadVars, docVars, authVars>>

\* clearBtn "click"
ChatClearClickCancels ==
    /\ messages' = <<Welcome>>
    /\ chatPending' = EmptyBag
    /\ lastEvent' = [type |-> "chatClear", response |-> "none"]
    /\ UNCHANGED <<promptInput, status>>
    /\ UNCHANGED <<uploadVars, docVars, authVars>>

ChatClearClick ==
    /\ messages' = <<Welcome>>
    /\ lastEvent' = [type |-> "chatClear", response |-> "none"]
    /\ UNCHANGED <<promptInput, status, chatPending>>
    /\ UNCHANGED <<uploadVars, docVars, authVars>>

\* composer "submit", up to the await of fetch("/api/chat")
composerSubmitWhilePendingIgnored ==
    LET text == trim(promptInput) IN
    IF text = <<>> \/ chatPending # EmptyBag
    THEN UNCHANGED <<messages, promptInput, status, chatPending>>
    ELSE /\ addMessage(text, "user")
         /\ promptInput' = <<>>
         /\ chatSetStatus("Thinking...", TRUE)
         /\ chatPending' = chatPending (+) SetToBag({text})

composerSubmitNoTrim ==
    LET text == promptInput IN
    IF text = <<>>
    THEN UNCHANGED <<messages, promptInput, status, chatPending>>
    ELSE /\ addMessage(text, "user")
         /\ promptInput' = <<>>
         /\ chatSetStatus("Thinking...", TRUE)
         /\ chatPending' = chatPending (+) SetToBag({text})

composerSubmit ==
    LET text == trim(promptInput) IN
    IF text = <<>>
    THEN UNCHANGED <<messages, promptInput, status, chatPending>>
    ELSE /\ addMessage(text, "user")
         /\ promptInput' = <<>>
         /\ chatSetStatus("Thinking...", TRUE)
         /\ chatPending' = chatPending (+) SetToBag({text})

\* the transcript keeps room for the entry of every request awaited
RoomToSubmit ==
    /\ BagCardinality(chatPending) < MaxChatPending
    /\ Len(messages) + BagCardinality(chatPending) + 2 <= MaxMessages

ComposerSubmit ==
    /\ trim(promptInput) # <<>> => RoomToSubmit
    /\ composerSubmit
    /\ lastEvent' = [type |-> "submit", response |-> "none"]
    /\ UNCHANGED <<uploadVars, docVars, authVars>>

\* What the server (or the network) answers to POST /api/chat:
\*   ok + reply     2xx, JSON object with a non-empty reply
\*   ok + empty     2xx, JSON object whose reply is "" or missing
\*   ok + null      2xx, the JSON value null: payload.reply throws
\*   ok + not json  2xx, a body that is no JSON: response.json() rejects
\*   http           non-2xx
\*   reject         fetch rejects
ChatOkPayloads == {"reply", "empty", "null", "not json"}
ChatErrors == {"http", "reject"}

\* payload.reply of a payload that has one
ReplyText == <<"h","e","l","l","o">>

\* catch (error) { addMessage(<offline text>, "system"); setStatus("Offline", false); }
chatCatchAsAssistant ==
    /\ addMessage(OfflineText, "assistant")
    /\ chatSetStatus("Offline", FALSE)

chatCatch ==
    /\ addMessage(OfflineText, "system")
    /\ chatSetStatus("Offline", FALSE)

\* the continuation after a 2xx response: lines 52-54, or the catch block
\* when response.json() rejects or payload.reply throws
chatOk(payload) ==
    IF payload \in {"null", "not json"}
    THEN chatCatch
    ELSE /\ addMessage(IF payload = "reply" THEN ReplyText ELSE NoReplyText,
                       "assistant")
         /\ chatSetStatus("Connected", TRUE)

\* a 2xx response to one pending request arrives
ChatResponseOk(body, payload) ==
    /\ BagIn(body, chatPending)
    /\ chatPending' = chatPending (-) SetToBag({body})
    /\ chatOk(payload)
    /\ lastEvent' = [type |-> "chatOk", response |-> payload]
    /\ UNCHANGED promptInput
    /\ UNCHANGED <<uploadVars, docVars, authVars>>

\* a non-2xx response arrives, or the fetch rejects: lines 47-50 throw
ChatResponseFailed(body, err) ==
    /\ BagIn(body, chatPending)
    /\ chatPending' = chatPending (-) SetToBag({body})
    /\ chatCatch
    /\ lastEvent' = [type |-> "chatFailed", response |-> err]
    /\ UNCHANGED promptInput
    /\ UNCHANGED <<uploadVars, docVars, authVars>>

----------------------------------------------------------------------------
(* documentView.js (and documentIdea.js, the same handlers): the document  *)
(* page                                                                    *)

\* the pin button's label in the page markup
MarkupPinLabel == "Pin Document"

\* pinBtn "click" on a button [pinned, label]: the new flag, label and alert
pinClickLabelOfOldFlag(btn) ==
    [pinned |-> ~btn.pinned,
     label  |-> IF btn.pinned THEN "Unpin Document" ELSE "Pin Document",
     alert  |-> IF ~btn.pinned THEN "Document pinned!" ELSE "Document unpinned!"]

pinClick(btn) ==
    [pinned |-> ~btn.pinned,
     label  |-> IF ~btn.pinned THEN "Unpin Document" ELSE "Pin Document",
     alert  |-> IF ~btn.pinned THEN "Document pinned!" ELSE "Document unpinned!"]

\* the pin button as it is
PinBtn == [pinned |-> pinned, label |-> pinLabel]

PinClick ==
    /\ pinned' = pinClick(PinBtn).pinned
    /\ pinLabel' = pinClick(PinBtn).label
    /\ alertText' = pinClick(PinBtn).alert
    /\ lastEvent' = [type |-> "pinClick", response |-> "none"]
    /\ UNCHANGED <<commentInput, commentsList, docTitle>>
    /\ UNCHANGED <<uploadVars, chatVars, authVars>>

\* the user edits #commentInput
TypeComment(value) ==
    /\ commentInput' = value
    /\ lastEvent' = [type |-> "typeComment", response |-> "none"]
    /\ UNCHANGED <<pinned, pinLabel, alertText, commentsList, docTitle>>
    /\ UNCHANGED <<uploadVars, chatVars, authVars>>

\* newComment.innerHTML = `<strong>You:</strong> ${commentText}`
CommentRow(commentText) == [strong |-> "You:", text |-> commentText]

\* commentForm "submit"
commentSubmitNoTrim ==
    LET commentText == commentInput IN
    IF commentText = <<>>
    THEN UNCHANGED <<commentsList, commentInput>>
    ELSE /\ commentsList' = Append(commentsList, CommentRow(commentText))
         /\ commentInput' = <<>>

commentSubmit ==
    LET commentText == trim(commentInput) IN
    IF commentText = <<>>
    THEN UNCHANGED <<commentsList, commentInput>>
    ELSE /\ commentsList' = Append(commentsList, CommentRow(commentText))
         /\ commentInput' = <<>>

CommentSubmit ==
    /\ trim(commentInput) # <<>> => Len(commentsList) < MaxComments
    /\ commentSubmit
    /\ lastEvent' = [type |-> "commentSubmit", response |-> "none"]
    /\ UNCHANGED <<pinned, pinLabel, alertText, docTitle>>
    /\ UNCHANGED <<uploadVars, chatVars, authVars>>

\* params.get("doc"): no parameter, or a title
DocParams == {"(none)", "Plan"}

----------------------------------------------------------------------------
(* login-signup.js: the login/signup page.  The script registers two       *)
(* DOMContentLoaded listeners (lines 54 and 121); each adds a submit       *)
(* listener to either form, so a submit runs both, in that order.          *)

\* a value a JSON payload does not carry
Undefined == "undefined"

\* the setTimeout delays of the two success paths, in milliseconds
DashboardDelay == 600
ShowLoginDelay == 800

\* the callbacks handed to setTimeout
DashboardTimeout == [run |-> "dashboard", delay |-> DashboardDelay]
ShowLoginTimeout == [run |-> "showLogin", delay |-> ShowLoginDelay]

\* what the user may have typed into #loginEmail / #signupEmail
Emails == { <<"a","@","b">>, <<" ","a","@","b"," ">> }

\* showSignup()
showSignup ==
    /\ loginHidden' = TRUE
    /\ signupHidden' = FALSE

\* showLogin()
showLogin ==
    /\ signupHidden' = TRUE
    /\ loginHidden' = FALSE

\* showMessage(formEl, message, isError): the form's one .api-message
showMessage(message, isError) == [text |-> message, isError |-> isError]

\* the page is still there: no handler runs once the dashboard has loaded
PageAlive == location # "dashboard"

\* room for one more request and the timer its answer may set
RoomToPost == BagCardinality(authPending) + BagCardinality(timers) < MaxAuthPending

\* showSignup() / showLogin() called from the page's links
ShowSignupLink ==
    /\ PageAlive
    /\ showSignup
    /\ lastEvent' = [type |-> "showSignup", response |-> "none"]
    /\ UNCHANGED <<loginMessage, signupMessage, localStorage, authPending,
                   timers, location>>
    /\ UNCHANGED <<uploadVars, chatVars, docVars>>

ShowLoginLink ==
    /\ PageAlive
    /\ showLogin
    /\ lastEvent' = [type |-> "showLogin", response |-> "none"]
    /\ UNCHANGED <<loginMessage, signupMessage, localStorage, authPending,
                   timers, location>>
    /\ UNCHANGED <<uploadVars, chatVars, docVars>>

\* loginForm "submit", first listener (lines 59-66), up to the await in apiPost
loginSubmitApi(email) ==
    authPending' = authPending (+)
        SetToBag({[path |-> "/auth/login", email |-> trim(email)]})

\* loginForm "submit", second listener (lines 126-139)
loginSubmitRedirect == location' = "navigating"

\* loginForm "submit": both listeners
LoginSubmit(email) ==
    /\ PageAlive
    /\ ~loginHidden
    /\ RoomToPost
    /\ loginSubmitApi(email)
    /\ loginSubmitRedirect
    /\ lastEvent' = [type |-> "loginSubmit", response |-> "none"]
    /\ UNCHANGED <<loginHidden, signupHidden, loginMessage, signupMessage,
                   localStorage, timers>>
    /\ UNCHANGED <<uploadVars, chatVars, docVars>>

\* signupForm "submit", first listener (lines 83-91), up to the await in apiPost
signupSubmitApi(email) ==
    authPending' = authPending (+)
        SetToBag({[path |-> "/auth/signup", email |-> trim(email)]})

\* signupForm "submit", second listener (lines 144-159): alert, showLogin()
signupSubmitPrototype ==
    /\ alertText' = "Account request submitted for approval."
    /\ showLogin

\* signupForm "submit": both listeners
SignupSubmit(email) ==
    /\ PageAlive
    /\ ~signupHidden
    /\ RoomToPost
    /\ signupSubmitApi(email)
    /\ signupSubmitPrototype
    /\ lastEvent' = [type |-> "signupSubmit", response |-> "none"]
    /\ UNCHANGED <<loginMessage, signupMessage, localStorage, timers, location>>
    /\ UNCHANGED <<pinned, pinLabel, commentInput, commentsList, docTitle>>
    /\ UNCHANGED <<uploadVars, chatVars>>

\* What apiPost returns for a 2xx response: data, the parsed JSON body, or
\* null when the body is no JSON (lines 39-44) or is the JSON value null
LoginPayloads ==
    { [kind |-> "object", access_token |-> "abc", token_type |-> "bearer",
       message |-> "Welcome back"],
      [kind |-> "object", access_token |-> "xyz", token_type |-> "Bearer",
       message |-> Undefined],
      [kind |-> "object", access_token |-> Undefined, token_type |-> Undefined,
       message |-> Undefined],
      [kind |-> "null", access_token |-> Undefined, token_type |-> Undefined,
       message |-> Undefined] }

\* How apiPost throws: non-2xx with data.detail, with data.message, with
\* neither (or no JSON body), or a rejected fetch
AuthErrors == {"detail", "message", "status", "reject"}

\* err.message in the catch block
authErrorMessage(err) ==
    CASE err = "detail"  -> "Invalid credentials"
      [] err = "message" -> "Account locked"
      [] err = "status"  -> "Request failed (401)"
      [] err = "reject"  -> "Failed to fetch"
      [] err = "null"    -> "Cannot read properties of null (reading 'access_token')"

\* the login continuation after apiPost returned data (lines 68-76), or the
\* catch block when data.access_token throws on null
loginOkSwappedKeys(data) ==
    IF data.kind = "null"
    THEN /\ loginMessage' = showMessage(authErrorMessage("null"), TRUE)
         /\ UNCHANGED <<localStorage, timers>>
    ELSE /\ localStorage' = [access_token |-> data.token_type,
                             token_type   |-> data.access_token]
         /\ loginMessage' =
              showMessage(IF data.message # Undefined THEN data.message
                          ELSE "Login successful", FALSE)
         /\ timers' = timers (+) SetToBag({DashboardTimeout})

loginOk(data) ==
    IF data.kind = "null"
    THEN /\ loginMessage' = showMessage(authErrorMessage("null"), TRUE)
         /\ UNCHANGED <<localStorage, timers>>
    ELSE /\ localStorage' = [access_token |-> data.access_token,
                             token_type   |-> data.token_type]
         /\ loginMessage' =
              showMessage(IF data.message # Undefined THEN data.message
                          ELSE "Login successful", FALSE)
         /\ timers' = timers (+) SetToBag({DashboardTimeout})

\* the login continuation after apiPost threw (line 77-79)
loginFailed(err) ==
    /\ loginMessage' = showMessage(authErrorMessage(err), TRUE)
    /\ UNCHANGED <<localStorage, timers>>

\* the signup continuation after apiPost returned (lines 93-98)
signupOk ==
    /\ signupMessage' = showMessage("Account created", FALSE)
    /\ timers' = timers (+) SetToBag({ShowLoginTimeout})

\* the signup continuation after apiPost threw (lines 99-101)
signupFailed(err) ==
    /\ signupMessage' = showMessage(authErrorMessage(err), TRUE)
    /\ UNCHANGED timers

\* a 2xx response to a pending /auth/login request arrives
LoginResponseOk(req, data) ==
    /\ PageAlive
    /\ BagIn(req, authPending) /\ req.path = "/auth/login"
    /\ authPending' = authPending (-) SetToBag({req})
    /\ loginOk(data)
    /\ lastEvent' = [type |-> "loginOk", response |-> data]
    /\ UNCHANGED <<loginHidden, signupHidden, signupMessage, location>>
    /\ UNCHANGED <<uploadVars, chatVars, docVars>>

\* a non-2xx response to a pending /auth/login request arrives, or its fetch rejects
LoginResponseFailed(req, err) ==
    /\ PageAlive
    /\ BagIn(req, authPending) /\ req.path = "/auth/login"
    /\ authPending' = authPending (-) SetToBag({req})
    /\ loginFailed(err)
    /\ lastEvent' = [type |-> "loginFailed", response |-> err]
    /\ UNCHANGED <<loginHidden, signupHidden, signupMessage, location>>
    /\ UNCHANGED <<uploadVars, chatVars, docVars>>

\* a 2xx response to a pending /auth/signup request arrives
SignupResponseOk(req) ==
    /\ PageAlive
    /\ BagIn(req, authPending) /\ req.path = "/auth/signup"
    /\ authPending' = authPending (-) SetToBag({req})
    /\ signupOk
    /\ lastEvent' = [type |-> "signupOk", response |-> "none"]
    /\ UNCHANGED <<loginHidden, signupHidden, loginMessage, localStorage, location>>
    /\ UNCHANGED <<uploadVars, chatVars, docVars>>

\* a non-2xx response to a pending /auth/signup request arrives, or its fetch rejects
SignupResponseFailed(req, err) ==
    /\ PageAlive
    /\ BagIn(req, authPending) /\ req.path = "/auth/signup"
    /\ authPending' = authPending (-) SetToBag({req})
    /\ signupFailed(err)
    /\ lastEvent' = [type |-> "signupFailed", response |-> err]
    /\ UNCHANGED <<loginHidden, signupHidden, loginMessage, localStorage, location>>
    /\ UNCHANGED <<uploadVars, chatVars, docVars>>

\* setTimeout(() => { window.location.href = "dashboard.html" }, 600) runs
DashboardTimer ==
    /\ PageAlive
    /\ BagIn(DashboardTimeout, timers)
    /\ timers' = timers (-) SetToBag({DashboardTimeout})
    /\ location' = "navigating"
    /\ lastEvent' = [type |-> "timer", response |-> "dashboard"]
    /\ UNCHANGED <<loginHidden, signupHidden, loginMessage, signupMessage,
                   localStorage, authPending>>
    /\ UNCHANGED <<uploadVars, chatVars, docVars>>

\* setTimeout(() => { showLogin() }, 800) runs
ShowLoginTimer ==
    /\ PageAlive
    /\ BagIn(ShowLoginTimeout, timers)
    /\ timers' = timers (-) SetToBag({ShowLoginTimeout})
    /\ showLogin
    /\ lastEvent' = [type |-> "timer", response |-> "showLogin"]
    /\ UNCHANGED <<loginMessage, signupMessage, localStorage, authPending, location>>
    /\ UNCHANGED <<uploadVars, chatVars, docVars>>

\* the navigation started by window.location.href = ... completes: the page
\* is unloaded, with its timers and the fetches it still awaits
PageUnload ==
    /\ location = "navigating"
    /\ location' = "dashboard"
    /\ authPending' = EmptyBag
    /\ timers' = EmptyBag
    /\ lastEvent' = [type |-> "unload", response |-> "none"]
    /\ UNCHANGED <<loginHidden, signupHidden, loginMessage, signupMessage,
                   localStorage>>
    /\ UNCHANGED <<uploadVars, chatVars, docVars>>

----------------------------------------------------------------------------
(* The pages as loaded.                                                    *)

\* what the page's markup shows before any handler has run
MarkupStatusBox == [title |-> "(markup)", message |-> "(markup)"]

\* landing.js as loaded: files = [], then refreshList() (line 106)
UploadInit ==
    /\ files = <<>>
    /\ fileList = Rows(<<>>)
    /\ ingestBtnDisabled = TRUE
    /\ clearBtnDisabled = TRUE
    /\ statusBox = MarkupStatusBox
    /\ dragover = FALSE
    /\ incoming = <<>>
    /\ ingestPending = EmptyBag

\* chat.js as loaded: the transcript is whatever the markup holds
ChatInit ==
    /\ messages \in {<<>>, <<Welcome>>}
    /\ promptInput = <<>>
    /\ status = [text |-> "(markup)", ok |-> TRUE]
    /\ chatPending = EmptyBag

\* the other page is not open: its state never changes
NoChatPage ==
    /\ messages = <<>>
    /\ promptInput = <<>>
    /\ status = [text |-> "(markup)", ok |-> TRUE]
    /\ chatPending = EmptyBag

\* documentView.js as loaded: the title is the "doc" parameter, if any
DocInit ==
    /\ pinned = FALSE
    /\ pinLabel = MarkupPinLabel
    /\ alertText = "(none)"
    /\ commentInput = <<>>
    /\ commentsList = <<>>
    /\ docTitle \in {IF param = "(none)" THEN "(markup)" ELSE param : param \in DocParams}

NoDocPage ==
    /\ pinned = FALSE
    /\ pinLabel = MarkupPinLabel
    /\ alertText = "(none)"
    /\ commentInput = <<>>
    /\ commentsList = <<>>
    /\ docTitle = "(markup)"

\* no .api-message yet
NoMessage == [text |-> "(none)", isError |-> FALSE]

\* what localStorage holds before the page has stored anything
StoredBefore ==
    { [access_token |-> "(absent)", token_type |-> "(absent)"],
      [access_token |-> "old", token_type |-> "bearer"] }

\* login-signup.js as loaded, both DOMContentLoaded listeners run
AuthInit ==
    /\ loginHidden = FALSE
    /\ signupHidden = TRUE
    /\ loginMessage = NoMessage
    /\ signupMessage = NoMessage
    /\ localStorage \in StoredBefore
    /\ authPending = EmptyBag
    /\ timers = EmptyBag
    /\ location = "auth"

NoAuthPage ==
    /\ loginHidden = FALSE
    /\ signupHidden = TRUE
    /\ loginMessage = NoMessage
    /\ signupMessage = NoMessage
    /\ localStorage = [access_token |-> "(absent)", token_type |-> "(absent)"]
    /\ authPending = EmptyBag
    /\ timers = EmptyBag
    /\ location = "auth"

\* the upload page, loaded
Init ==
    /\ UploadInit
    /\ NoChatPage
    /\ NoDocPage
    /\ NoAuthPage
    /\ lastEvent = [type |-> "load", response |-> "none"]

\* the chat page, loaded (the upload page's variables keep their first values)
ChatPageInit ==
    /\ UploadInit
    /\ ChatInit
    /\ NoDocPage
    /\ NoAuthPage
    /\ lastEvent = [type |-> "load", response |-> "none"]

\* the upload page: selecting, clearing, submitting, responses
Next ==
    \/ \E c \in PageLists : FileInputChange(c)
    \/ \E c \in PageLists : Drop(c)
    \/ ClearClick
    \/ IngestClick
    \/ \E body \in BagToSet(ingestPending), payload \in IngestOkPayloads :
          IngestResponseOk(body, payload)
    \/ \E body \in BagToSet(ingestPending), err \in IngestErrors :
          IngestResponseFailed(body, err)

Spec == Init /\ [][Next]_vars

\* the upload page's file selection and drag-and-drop, over FileLists
QueueNext ==
    \/ \E c \in FileLists : FileInputChange(c)
    \/ DragOver
    \/ DragLeave
    \/ \E c \in FileLists : Drop(c)
    \/ ClearClick

QueueSpec == Init /\ [][QueueNext]_vars


\* the chat page: every event of the composer and the clear button
ChatNext ==
    \/ \E value \in Prompts : TypePrompt(value)
    \/ ChatClearClick
    \/ ComposerSubmit
    \/ \E body \in BagToSet(chatPending), payload \in ChatOkPayloads :
          ChatResponseOk(body, payload)
    \/ \E body \in BagToSet(chatPending), err \in ChatErrors :
          ChatResponseFailed(body, err)

ChatSpec == ChatPageInit /\ [][ChatNext]_vars

\* the document page, loaded
DocPageInit ==
    /\ UploadInit
    /\ NoChatPage
    /\ DocInit
    /\ NoAuthPage
    /\ lastEvent = [type |-> "load", response |-> "none"]

\* the document page: pin clicks, typing and submitting comments
DocNext ==
    \/ PinClick
    \/ \E value \in Prompts : TypeComment(value)
    \/ CommentSubmit

DocSpec == DocPageInit /\ [][DocNext]_vars

\* the login/signup page, loaded
AuthPageInit ==
    /\ UploadInit
    /\ NoChatPage
    /\ NoDocPage
    /\ AuthInit
    /\ lastEvent = [type |-> "load", response |-> "none"]

\* the login/signup page: links, submits, responses, timers, leaving
AuthNext ==
    \/ ShowSignupLink
    \/ ShowLoginLink
    \/ \E email \in Emails : LoginSubmit(email)
    \/ \E email \in Emails : SignupSubmit(email)
    \/ \E req \in BagToSet(authPending), data \in LoginPayloads :
          LoginResponseOk(req, data)
    \/ \E req \in BagToSet(authPending), err \in AuthErrors :
          LoginResponseFailed(req, err)
    \/ \E req \in BagToSet(authPending) : SignupResponseOk(req)
    \/ \E req \in BagToSet(authPending), err \in AuthErrors :
          SignupResponseFailed(req, err)
    \/ DashboardTimer
    \/ ShowLoginTimer
    \/ PageUnload

AuthSpec == AuthPageInit /\ [][AuthNext]_vars

----------------------------------------------------------------------------
(* The claims.                                                             *)

\* C1 (as claimed; the upload page violates it): in every reachable state
\* at most one POST to /api/ingest is in flight.
C1_AtMostOneIngestInFlight == BagCardinality(ingestPending) <= 1

\* C2 (as claimed; the chat page violates it): in every reachable state at
\* most one POST to /api/chat is in flight.
C2_AtMostOneChatInFlight == BagCardinality(chatPending) <= 1

\* C2 (amended): every composer submit with non-empty trimmed text issues
\* exactly one POST carrying that text, whether or not earlier requests are
\* still awaited; every response settles exactly one request; no other
\* event changes the requests in flight.
C2_EverySubmitIssuesOneRequest ==
    [][ /\ (lastEvent'.type = "submit" /\ trim(promptInput) # <<>>)
            => chatPending' = chatPending (+) SetToBag({trim(promptInput)})
        /\ lastEvent'.type \in {"chatOk", "chatFailed"}
            => BagCardinality(chatPending') = BagCardinality(chatPending) - 1
        /\ lastEvent'.type \in {"type", "chatClear"}
            => chatPending' = chatPending ]_vars

\* C2 witness: a submit has just issued a second request while the first
\* is still awaited.
C2_Witness ==
    /\ lastEvent.type = "submit"
    /\ BagCardinality(chatPending) = 2

\* C3 (as claimed; the upload page violates it): right after the handler
\* has processed a 2xx /api/ingest response the queue is empty and the
\* submit control is disabled.
C3_SuccessLeavesSubmitDisabled ==
    lastEvent.type = "ingestOk" => (files = <<>> /\ ingestBtnDisabled)

\* C4: a failed /api/ingest request (non-2xx or rejected fetch) sets the
\* status to "Upload failed" with the error text, re-enables the submit
\* control and leaves the queue as it was.
C4_FailureKeepsQueue ==
    [][ lastEvent'.type = "ingestFailed" =>
          /\ statusBox'.title = "Upload failed"
          /\ statusBox'.message =
               "Error: " \o ingestErrorMessage(lastEvent'.response)
                 \o ". Verify the ingestion endpoint is running."
          /\ ~ingestBtnDisabled'
          /\ files' = files ]_vars

\* C4 witness: a failure has been handled with files still queued.
C4_Witness ==
    /\ lastEvent.type = "ingestFailed"
    /\ files # <<>>
    /\ ~ingestBtnDisabled
    /\ statusBox.title = "Upload failed"

\* C5: a submit click while the queue is empty issues no request and
\* changes neither the queue, the status nor the controls.
C5_EmptySubmitIsNoOp ==
    [][ (lastEvent'.type = "ingestClick" /\ files = <<>>) =>
          UNCHANGED <<files, fileList, statusBox, ingestBtnDisabled,
                      clearBtnDisabled, ingestPending>> ]_vars

\* C5 witness: the enabled submit control was clicked with an empty queue.
C5_Witness ==
    /\ lastEvent.type = "ingestClick"
    /\ files = <<>>
    /\ ~ingestBtnDisabled

\* The files of AllFiles whose lower-cased name ends in .md, .markdown,
\* .txt or .rst, listed by hand: a.md, G.MarkDown, l.txt, d.RST
\* (not e.pdf, a.md.bak, md).
Supported == {NotesMd, GuideMarkdown, LogTxt, ApiRst}

\* C6: addFiles appends exactly the candidates with a supported name, in
\* their order, after the entries the queue already holds.
C6_AppendsSupportedInOrder ==
    [][ lastEvent'.type \in {"change", "drop"} =>
          files' = files \o SelectSeq(incoming', LAMBDA f : f \in Supported)
      ]_vars

\* C6 witness: a list mixing an unsupported file and an upper-case .RST
\* name was added to a queue that already held an entry.
C6_Witness ==
    /\ lastEvent.type \in {"change", "drop"}
    /\ incoming = <<BackupBak, ApiRst>>
    /\ files = <<GuideMarkdown, ApiRst>>

\* C7: addFiles with no supported candidate (an empty list included) shows
\* the "No supported files" message and leaves the queue, the submit
\* control and the clear control as they were.
C7_RejectionLeavesQueueAndControls ==
    [][ ( /\ lastEvent'.type \in {"change", "drop"}
          /\ \A i \in 1..Len(incoming') : incoming'[i] \notin Supported ) =>
          /\ statusBox'.title = "No supported files"
          /\ UNCHANGED <<files, ingestBtnDisabled, clearBtnDisabled>> ]_vars

\* C7 witness: an empty drop was rejected while files are queued and the
\* submit control is disabled by a request in flight.
C7_Witness ==
    /\ lastEvent.type = "drop"
    /\ incoming = <<>>
    /\ statusBox.title = "No supported files"
    /\ files # <<>>
    /\ ingestBtnDisabled
    /\ ~clearBtnDisabled

\* C8: a composer submit whose input is empty or only white space appends
\* no transcript entry, issues no request and leaves the status alone.
C8_BlankSubmitIsNoOp ==
    [][ ( /\ lastEvent'.type = "submit"
          /\ \A i \in 1..Len(promptInput) : promptInput[i] \in WhiteSpace ) =>
          UNCHANGED <<messages, chatPending, status>> ]_vars

\* C8 witness: a white-space-only input was submitted.
C8_Witness ==
    /\ lastEvent.type = "submit"
    /\ promptInput = <<"\t", " ", "\n">>
    /\ messages # <<>>

\* C9 (as claimed; the chat page violates it): every 2xx /api/chat response
\* appends exactly one assistant entry (the reply, or the fallback) and
\* sets the status to "Connected".
C9_SuccessAppendsAssistant ==
    [][ lastEvent'.type = "chatOk" =>
          /\ Len(messages') = Len(messages) + 1
          /\ SubSeq(messages', 1, Len(messages)) = messages
          /\ messages'[Len(messages')].role = "assistant"
          /\ messages'[Len(messages')].text =
               (IF lastEvent'.response = "reply"
                THEN <<"h","e","l","l","o">>
                ELSE <<"No response received.">>)
          /\ status'.text = "Connected" ]_vars

\* C10: every failed /api/chat request (non-2xx or rejected fetch) appends
\* exactly one system entry with the fixed offline text and sets the status
\* to "Offline" in the error colour.
C10_FailureAppendsSystem ==
    [][ lastEvent'.type = "chatFailed" =>
          /\ messages' = Append(messages,
               [text |-> <<"Unable to reach the chat service. Check that the backend is running.">>,
                role |-> "system"])
          /\ status' = [text |-> "Offline", ok |-> FALSE] ]_vars

\* C10 witness: a failure was handled after the user's entry.
C10_Witness ==
    /\ lastEvent.type = "chatFailed"
    /\ Len(messages) >= 2
    /\ messages[Len(messages)].role = "system"
    /\ messages[Len(messages) - 1].role = "user"
    /\ status.text = "Offline"

\* C11: when the login page handles a 2xx /auth/login response whose JSON
\* body carries access_token and token_type, local storage then holds those
\* two values under these keys, and one more call of the dashboard
\* navigation is scheduled with the fixed delay.
C11_LoginStoresTokens ==
    [][ ( /\ lastEvent'.type = "loginOk"
          /\ lastEvent'.response.kind = "object"
          /\ lastEvent'.response.access_token # "undefined"
          /\ lastEvent'.response.token_type # "undefined" ) =>
          /\ localStorage'.access_token = lastEvent'.response.access_token
          /\ localStorage'.token_type = lastEvent'.response.token_type
          /\ timers' = timers (+) SetToBag({[run |-> "dashboard", delay |-> 600]}) ]_vars

\* C11 witness: the response {access_token: "abc", token_type: "bearer"} was
\* handled over tokens of an earlier session.
C11_Witness ==
    /\ lastEvent.type = "loginOk"
    /\ lastEvent.response.access_token = "abc"
    /\ localStorage = [access_token |-> "abc", token_type |-> "bearer"]
    /\ BagIn([run |-> "dashboard", delay |-> 600], timers)
    /\ loginMessage = [text |-> "Welcome back", isError |-> FALSE]

\* C12 (as claimed; the login page violates it): handling a failed
\* /auth/login request shows the error inline (the server's detail or
\* message, "Request failed (<status>)", or the fetch error), leaves the
\* stored tokens alone and schedules nothing; and where no login has
\* succeeded on the page (no token stored yet), the page has not begun to
\* navigate to the dashboard.
C12_FailedLoginStaysOnPage ==
    [][ lastEvent'.type = "loginFailed" =>
          /\ loginMessage'.isError
          /\ loginMessage'.text \in {"Invalid credentials", "Account locked",
                                     "Request failed (401)", "Failed to fetch"}
          /\ localStorage' = localStorage
          /\ timers' = timers
          /\ localStorage.access_token = "(absent)" => location' = "auth" ]_vars

\* C13 (as claimed; the signup page violates it): the signup panel gives way
\* to the login panel only when the timer of a successful /auth/signup
\* response runs (or the user follows the login link); a failed request
\* shows the error inline and keeps the signup panel.
C13_SignupSwitchesAfterSuccess ==
    [][ /\ (~signupHidden /\ signupHidden') =>
             \/ lastEvent' = [type |-> "timer", response |-> "showLogin"]
             \/ lastEvent'.type = "showLogin"
        /\ lastEvent'.type = "signupOk" =>
             /\ signupHidden' = signupHidden
             /\ timers' = timers (+) SetToBag({[run |-> "showLogin", delay |-> 800]})
        /\ lastEvent'.type = "signupFailed" =>
             /\ signupMessage'.isError
             /\ signupHidden' = signupHidden
             /\ timers' = timers ]_vars

C15_QueueGrowsAtEndOrEmpties ==
    [][ \/ files' = <<>>
        \/ /\ Len(files') >= Len(files)
           /\ SubSeq(files', 1, Len(files)) = files ]_vars

\* C15 witness: a file already queued was queued again, after the first.
C15_Witness ==
    /\ lastEvent.type \in {"change", "drop"}
    /\ files = <<NotesMd, NotesMd>>

\* the text between the first and the last character that is no white space
C16_Between(s) ==
    LET first == CHOOSE i \in 1..Len(s) :
                     s[i] \notin {" ", "\t", "\n"} /\
                     \A k \in 1..(i - 1) : s[k] \in {" ", "\t", "\n"}
        last  == CHOOSE j \in 1..Len(s) :
                     s[j] \notin {" ", "\t", "\n"} /\
                     \A k \in (j + 1)..Len(s) : s[k] \in {" ", "\t", "\n"}
    IN  [k \in 1..(last - first + 1) |-> s[first + k - 1]]

\* C16: a comment submit whose input is empty or only white space leaves
\* the comment list unchanged; any other submit appends exactly one entry
\* holding the trimmed text at the end of the list and clears the input;
\* no step removes or reorders the comments already listed.
C16_CommentsAppendOnly ==
    [][ /\ lastEvent'.type = "commentSubmit" =>
             IF \A i \in 1..Len(commentInput) : commentInput[i] \in {" ", "\t", "\n"}
             THEN commentsList' = commentsList
             ELSE /\ commentsList' =
                        Append(commentsList,
                               [strong |-> "You:", text |-> C16_Between(commentInput)])
                  /\ commentInput' = <<>>
        /\ Len(commentsList') >= Len(commentsList)
        /\ SubSeq(commentsList', 1, Len(commentsList)) = commentsList ]_vars

\* C16 witness: a comment typed with white space around it was listed,
\* trimmed, after an earlier comment.
C16_Witness ==
    /\ lastEvent.type = "commentSubmit"
    /\ Len(commentsList) = 2
    /\ commentsList[2].text = <<"h","i">>
    /\ commentsList[1].text = <<"a"," ","b">>
    /\ commentInput = <<>>

\* C17 (as claimed; the upload page violates it): while an /api/ingest
\* request is awaited the status shows "Uploading" and the submit control
\* is disabled.
C17_UploadingWhilePending ==
    ingestPending # EmptyBag =>
        (statusBox.title = "Uploading" /\ ingestBtnDisabled)

\* C18: a clear click leaves exactly the system welcome entry and cancels
\* no request; every other event keeps the transcript and at most appends
\* one entry at its end.
C18_ClearLeavesWelcome ==
    [][ IF lastEvent'.type = "chatClear"
        THEN /\ messages' =
                  << [text |-> <<"Upload docs, then ask anything. I will respond based on your indexed knowledge.">>,
                      role |-> "system"] >>
             /\ chatPending' = chatPending
        ELSE /\ Len(messages') \in {Len(messages), Len(messages) + 1}
             /\ SubSeq(messages', 1, Len(messages)) = messages ]_vars

\* C18 witness: the answer to a request issued before a clear was appended
\* right after the welcome entry.
C18_Witness ==
    /\ lastEvent.type = "chatOk"
    /\ Len(messages) = 2
    /\ messages[1].role = "system"
    /\ messages[2].role = "assistant"

\* C19 (as claimed; the upload page violates it): every file a successful
\* upload removes from the queue was part of the body of the request that
\* succeeded.
C19_SuccessRemovesOnlySentFiles ==
    [][ lastEvent'.type = "ingestOk" =>
          \E body \in BagToSet(ingestPending) :
              /\ ingestPending' = ingestPending (-) SetToBag({body})
              /\ Len(files) <= Len(body)
              /\ \A i \in 1..Len(files) : files[i] = body[i] ]_vars

\* C20 (as claimed; the upload page violates it): an enabled submit control
\* implies a non-empty queue, and the clear control is enabled exactly when
\* the queue is non-empty.
C20_ControlsFollowQueue ==
    /\ ~ingestBtnDisabled => files # <<>>
    /\ ~clearBtnDisabled <=> files # <<>>

============================================================================
